---- MODULE Spec2Model ----
(***************************************************************************)
(* Model of the agent endpoint of src/app/api/stt/route.ts (the second     *)
(* POST handler of that file, lines 555-763) and of the helpers it calls:  *)
(* session normalization, the two tool sets (managed "kernel" backend and  *)
(* direct "vps" backend), the agent loop and the trace extraction.         *)
(*                                                                         *)
(* URLs are abstracted to the three classes the code distinguishes:        *)
(*   "ext"   url.startsWith("chrome-extension://")                         *)
(*   "blank" url === "about:blank"                                         *)
(*   "web"   any other URL                                                 *)
(*                                                                         *)
(* agent.generate (route.ts:665) is the AI SDK's multi-step loop: one      *)
(* model call per step; the tool calls of a step are started together      *)
(* (Promise.all over the step's calls) and the next model call waits for   *)
(* all of them; an error thrown by a tool's execute is caught and becomes  *)
(* that call's tool-error item; the loop stops when a step has no tool     *)
(* call or when stopWhen holds.                                            *)
(***************************************************************************)
EXTENDS Integers, Sequences, FiniteSets, TLC

VARIABLES
  pc,            \* position of the POST handler
  provider,      \* sandboxProvider resolved for the request
  pages,         \* open pages of the session's browser context, in enumeration order
  primary,       \* id of the page normalization selected (0: none selected)
  normReport,    \* what the last normalization saw and did (dropped when the run starts)
  openConns,     \* number of CDP connections opened by this layer and not yet closed
  stepCount,     \* steps.length of the running agent loop
  calls,         \* tool calls of the current step
  hist,          \* what the steps so far hold: a failed outcome, a connector error, a raw-code call
  response,      \* the HTTP response of the request
  steps,         \* trace extraction: the steps agent.generate returned
  nextId,        \* trace extraction: next tool-call id the SDK hands out
  detailedSteps, \* trace extraction: the detailedSteps of the response
  executedCodes, \* trace extraction: the executedCodes of the response
  tracePc,       \* trace extraction: position
  req,           \* the request body and environment, while POST checks it and once it is rejected
  normRuns,      \* normalizations run on the session so far
  memSaves,      \* calls of saveSessionMemory made for the request
  mem            \* session memory: the store, what was loaded, the prompt text built from it

vars == <<pc, provider, pages, primary, normReport, openConns, stepCount, calls,
          hist, response, steps, nextId, detailedSteps, executedCodes, tracePc,
          req, normRuns, memSaves, mem>>

runVars == <<pc, provider, pages, primary, normReport, openConns, stepCount, calls,
             hist, response, req, normRuns, memSaves>>

traceVars == <<steps, nextId, detailedSteps, executedCodes, tracePc>>

-----------------------------------------------------------------------------
(* Bounds of the model *)

\* pages open in the session when the request arrives (and at any time)
MaxPages == 2

\* tool calls the model may emit in one step
MaxCalls == 2

\* leading steps of a run in which the model's emission is unconstrained;
\* in later steps it repeats one fixed call or stops
DetailSteps == 1

\* steps of a run whose trace is extracted
MaxTraceSteps == 3

\* tool calls in a run whose trace is extracted
MaxTraceCalls == 2

\* requests in a row whose normalizations are followed on one session
MaxNormRuns == 2

\* pages open in a session whose normalizations alone are followed
MaxNormPages == 3

\* rows the memory store answers a load with (the load asks for 6 at most)
MaxMemoryItems == 2

(* Program constants *)

\* stopWhen: stepCountIs(20)
StepLimit == 20

\* screenshot.toString("base64").slice(0, 120)
PreviewLimit == 120

\* (item.response || "").slice(0, 300)
SummaryLimit == 300

-----------------------------------------------------------------------------
(* Pages *)

UrlKinds == {"ext", "blank", "web"}

NoPage == [id |-> 0, url |-> "none"]

RECURSIVE SeqsUpTo(_, _)
SeqsUpTo(S, n) ==
  IF n = 0 THEN {<<>>}
  ELSE LET shorter == SeqsUpTo(S, n - 1)
       IN shorter \cup {Append(s, x) : s \in {t \in shorter : Len(t) = n - 1}, x \in S}

\* the page lists of at most n pages, ids 1..n in order
PageLists(n) ==
  {[i \in 1..Len(us) |-> [id |-> i, url |-> us[i]]] : us \in SeqsUpTo(UrlKinds, n)}

\* the page lists a session can hold when the request arrives: ids 1..n in order
InitialPages ==
  {[i \in 1..Len(us) |-> [id |-> i, url |-> us[i]]] : us \in SeqsUpTo(UrlKinds, MaxPages)}

PageIds(ps) == {ps[i].id : i \in 1..Len(ps)}

RECURSIVE MaxOf(_)
MaxOf(S) == IF S = {} THEN 0 ELSE LET x == CHOOSE y \in S : TRUE
                                  IN LET m == MaxOf(S \ {x}) IN IF x > m THEN x ELSE m

\* the predicate without its second conjunct
IsContentPageBlankToo(p) == p.url # "ext"

\* the predicate of pages.find in selectPrimaryPage and in the managed script
IsContentPage(p) == p.url # "ext" /\ p.url # "blank"

selectPrimaryPage(ps) ==
  IF \E i \in 1..Len(ps) : IsContentPage(ps[i])
  THEN ps[CHOOSE i \in 1..Len(ps) :
            IsContentPage(ps[i]) /\ \A j \in 1..(i - 1) : ~IsContentPage(ps[j])]
  ELSE IF Len(ps) > 0 THEN ps[1] ELSE NoPage

\* context.newPage(): a blank page appended to the context
NewPage(ps) == [id |-> MaxOf(PageIds(ps)) + 1, url |-> "blank"]

\* page.goto(url): the page's URL becomes the requested one
Goto(ps, id, u) == [i \in 1..Len(ps) |-> IF ps[i].id = id THEN [ps[i] EXCEPT !.url = u] ELSE ps[i]]

\* a loop that closes the primary page as well
CloseOthersAndPrimary(ps, keepId, failed) ==
  SelectSeq(ps, LAMBDA p : p.id \in failed)

\* a loop that a rejected close ends: the pages after the first page whose
\* close fails are left as they are
CloseOthersStopAtFailure(ps, keepId, failed) ==
  LET bad == {i \in 1..Len(ps) : ps[i].id \in failed /\ ps[i].id # keepId}
      stop == IF bad = {} THEN Len(ps) + 1 ELSE CHOOSE i \in bad : \A k \in bad : i <= k
      at(p) == CHOOSE i \in 1..Len(ps) : ps[i] = p
      keep(p) == p.id = keepId \/ at(p) >= stop
  IN SelectSeq(ps, keep)

\* the loop "close every page that is not the primary one", with the closes
\* in failed rejecting (the rejection is swallowed, the page stays open)
CloseOthers(ps, keepId, failed) ==
  LET keep(p) == p.id = keepId \/ p.id \in failed IN SelectSeq(ps, keep)

-----------------------------------------------------------------------------
(* Tool inputs: computerUseInputSchema (route.ts:292-313) and the code      *)
(* parameter of playwright_execute.  A field the schema marks optional is   *)
(* either absent or present; the strings text and key may also be empty.    *)

Actions ==
  {"navigate", "click", "move", "type_text", "key_press", "scroll", "wait", "screenshot"}

CU(action, url, hasX, hasY, text, key) ==
  [tool |-> "computer_use", action |-> action, url |-> url,
   hasX |-> hasX, hasY |-> hasY, text |-> text, key |-> key]

RawInput ==
  [tool |-> "playwright_execute", action |-> "code", url |-> "none",
   hasX |-> FALSE, hasY |-> FALSE, text |-> "none", key |-> "none"]

ComputerUseInputs ==
  {CU("navigate", u, FALSE, FALSE, "none", "none") : u \in {"none", "web", "blank"}}
  \cup {CU(a, "none", hx, hy, "none", "none") :
          a \in {"click", "move"}, hx \in BOOLEAN, hy \in BOOLEAN}
  \cup {CU("type_text", "none", FALSE, FALSE, t, "none") : t \in {"none", "empty", "text"}}
  \cup {CU("key_press", "none", FALSE, FALSE, "none", k) : k \in {"none", "empty", "key"}}
  \cup {CU(a, "none", FALSE, FALSE, "none", "none") : a \in {"scroll", "wait", "screenshot"}}

Inputs == ComputerUseInputs \cup {RawInput}

\* the inputs of the calls a model emits together in one step (every input
\* of Inputs is emitted alone)
ConcInputs ==
  {CU("click", "none", TRUE, TRUE, "none", "none")}

\* the call a model repeats after the first DetailSteps steps
Filler == CU("scroll", "none", FALSE, FALSE, "none", "none")

\* the guards "if (!input.url) throw", "if (input.x === undefined || ...) throw",
\* "if (!input.text) throw", "if (!input.key) throw" of both computer_use tools
MissingRequired(input) ==
  CASE input.action = "navigate" -> input.url = "none"
    [] input.action \in {"click", "move"} -> ~input.hasX \/ ~input.hasY
    [] input.action = "type_text" -> input.text \in {"none", "empty"}
    [] input.action = "key_press" -> input.key \in {"none", "empty"}
    [] OTHER -> FALSE

\* the message of the Error the guard throws
ValidationMessage(input) ==
  CASE input.action = "navigate" -> "navigate action requires 'url'"
    [] input.action = "click" -> "click action requires both 'x' and 'y'"
    [] input.action = "move" -> "move action requires both 'x' and 'y'"
    [] input.action = "type_text" -> "type_text action requires 'text'"
    [] input.action = "key_press" -> "key_press action requires 'key'"
    [] OTHER -> "none"

ValidationMessages == {ValidationMessage(CU(a, "none", FALSE, FALSE, "none", "none")) :
                         a \in {"navigate", "click", "move", "type_text", "key_press"}}

\* errors of the connector: chromium.connectOverCDP rejecting, no browser
\* context on the endpoint, context.newPage rejecting
ConnectorMessages ==
  {"connectOverCDP failed", "No browser context found on VPS CDP endpoint", "newPage failed"}

\* outcome of a tool call: execute returned the value val, or threw an Error
\* with message error; a returned {success:false, error} carries both
\* preview: the length of the encoded image text a result carries (0: none)
Returned(v) == [kind |-> "returned", val |-> v, error |-> "none", preview |-> 0]

ReturnedFailure(m) ==
  [kind |-> "returned", val |-> "success:false,error", error |-> m, preview |-> 0]

Threw(m) == [kind |-> "threw", val |-> "none", error |-> m, preview |-> 0]

Pending == [kind |-> "pending", val |-> "none", error |-> "none", preview |-> 0]

IsFailure(o) == o.kind = "threw" \/ o.val = "success:false,error"

-----------------------------------------------------------------------------
(* Responses of POST *)

NoResponse == [success |-> "none", status |-> 0, error |-> "none", stepCount |-> 0,
               toolFailures |-> FALSE]

\* Response.json({ error }, { status }): the early returns of lines 563-612
ErrorResponse(status, message) ==
  [success |-> "absent", status |-> status, error |-> message, stepCount |-> 0,
   toolFailures |-> FALSE]

\* the catch of POST: Response.json({ success: false, error }, { status: 500 })
CatchResponse(message) ==
  [success |-> "false", status |-> 500, error |-> message, stepCount |-> 0,
   toolFailures |-> FALSE]

\* a response that reports failure when a tool call of the run failed
RunResponseStrict(n, h) ==
  IF h.failed
  THEN [success |-> "false", status |-> 500, error |-> "tool call failed", stepCount |-> n,
        toolFailures |-> TRUE]
  ELSE [success |-> "true", status |-> 200, error |-> "none", stepCount |-> n,
        toolFailures |-> FALSE]

\* Response.json({ success: true, ..., detailedSteps, stepCount: steps.length, ... });
\* toolFailures: whether detailedSteps holds the outcome of a failed tool call
RunResponse(n, h) ==
  [success |-> "true", status |-> 200, error |-> "none", stepCount |-> n,
   toolFailures |-> h.failed]

\* values of the request's provider field and of SANDBOX_PROVIDER: absent,
\* the empty string, the direct backend's name in two spellings, the managed
\* backend's name, and a name of neither
ProviderValues == {"absent", "", "vps", "VPS", "kernel", "other"}

\* values of the request's task field: absent, "", whitespace only, a text
TaskValues == {"absent", "empty", "whitespace", "text"}

\* the request body and the environment it meets.  sessionId, cdpWsUrl and
\* the environment variables are set (non-empty) or not
Requests ==
  [provider : ProviderValues, task : TaskValues, sessionId : BOOLEAN,
   cdpWsUrl : BOOLEAN, envProvider : ProviderValues, envCdpWsUrl : BOOLEAN,
   envLiveViewUrl : BOOLEAN, apiKey : BOOLEAN]

NoRequest ==
  [provider |-> "none", task |-> "none", sessionId |-> FALSE, cdpWsUrl |-> FALSE,
   envProvider |-> "none", envCdpWsUrl |-> FALSE, envLiveViewUrl |-> FALSE,
   apiKey |-> FALSE]

\* JavaScript truthiness of an optional string
Truthy(v) == v \notin {"absent", "", "empty"}

\* String.prototype.toLowerCase on the values above
ToLowerCase(v) == IF v = "VPS" THEN "vps" ELSE v

\* a resolution that compares the name as written
resolveSandboxProviderAsWritten(input, env) ==
  IF (IF Truthy(input) THEN input ELSE IF Truthy(env) THEN env ELSE "kernel") = "vps"
  THEN "vps" ELSE "kernel"

\* sandbox-provider.ts:9-12
resolveSandboxProvider(input, env) ==
  LET raw == ToLowerCase(IF Truthy(input) THEN input
                         ELSE IF Truthy(env) THEN env ELSE "kernel")
  IN IF raw = "vps" THEN "vps" ELSE "kernel"

\* sandbox-provider.ts:14-28: whether getVpsSandboxConfig returns a config
\* (both VPS_SANDBOX_LIVE_VIEW_URL and VPS_SANDBOX_CDP_WS_URL are set)
getVpsSandboxConfig(r) == r.envLiveViewUrl /\ r.envCdpWsUrl

\* "cdpWsUrl || vpsConfig?.cdpWsUrl" is truthy
ResolvedCdpWsUrl(r) == r.cdpWsUrl \/ getVpsSandboxConfig(r)

\* the early return of POST for request r, NoResponse when there is none
\* (lines 563-612)
EarlyReturn(r) ==
  IF ~Truthy(r.task) THEN ErrorResponse(400, "Missing task")
  ELSE IF resolveSandboxProvider(r.provider, r.envProvider) = "vps"
  THEN IF ~ResolvedCdpWsUrl(r)
       THEN ErrorResponse(400, "VPS mode requires cdpWsUrl")
       ELSE NoResponse
  ELSE IF ~r.apiKey THEN ErrorResponse(400, "KERNEL_API_KEY is not set")
  ELSE IF ~r.sessionId THEN ErrorResponse(400, "Kernel mode requires sessionId")
  ELSE NoResponse

\* focus: what became of bringToFront ("none": not called)
NoReport ==
  [ran |-> FALSE, before |-> <<>>, selected |-> 0, closeFailed |-> {}, focus |-> "none"]

NoHist == [failed |-> FALSE, connector |-> FALSE, raw |-> FALSE]

-----------------------------------------------------------------------------
\* a handler that writes to the memory on every path
saveSessionMemoryCallsAlways(path, n) == n + 1

\* the calls of saveSessionMemory made once POST has gone down path, n having
\* been made before: the one call is on the path of a run that ended (line
\* 729); the early returns and the catch make none
saveSessionMemoryCalls(path, n) == IF path = "success" THEN n + 1 ELSE n

\* session memory not in use
NoMem == [pc |-> "off"]

(* The state when a request arrives *)

Init ==
  /\ pc = "idle"
  /\ provider = "none"
  /\ pages \in InitialPages
  /\ primary = 0
  /\ normReport = NoReport
  /\ openConns = 0
  /\ stepCount = 0
  /\ calls = <<>>
  /\ hist = NoHist
  /\ response = NoResponse
  /\ steps = <<>>
  /\ nextId = 1
  /\ detailedSteps = <<>>
  /\ executedCodes = <<>>
  /\ tracePc = "off"
  /\ req = NoRequest
  /\ normRuns = 0
  /\ memSaves = 0
  /\ mem = NoMem

\* POST, line 557: the request body is read
Arrive ==
  /\ pc = "idle"
  /\ req' \in Requests
  /\ pc' = "received"
  /\ UNCHANGED <<provider, pages, primary, normReport, openConns, stepCount, calls,
                 hist, response, normRuns>>
  /\ UNCHANGED <<traceVars, memSaves, mem>>

\* POST, lines 558-612: the provider is resolved and the checks before
\* normalization are made.  A rejected request is answered at once; an
\* accepted one goes on to normalization, its fields bound into the tools
Receive ==
  /\ pc = "received"
  /\ provider' = resolveSandboxProvider(req.provider, req.envProvider)
  /\ IF EarlyReturn(req) # NoResponse
     THEN /\ response' = EarlyReturn(req)
          /\ pc' = "done"
          /\ req' = req
          /\ memSaves' = saveSessionMemoryCalls("rejected", memSaves)
     ELSE /\ response' = response
          /\ pc' = "normalize"
          /\ req' = NoRequest
          /\ memSaves' = memSaves
  /\ UNCHANGED <<pages, primary, normReport, openConns, stepCount, calls, hist, normRuns>>
  /\ UNCHANGED <<traceVars, mem>>

-----------------------------------------------------------------------------
(* withVpsBrowser (route.ts:332-352) *)

\* what the endpoint answers to one withVpsBrowser: connectOverCDP rejects,
\* browser.contexts() is empty, context.newPage() rejects, or all is well
ConnectResults == {"refused", "nocontext", "newpagefails", "ok"}

\* "finally { await browser.close() }": the connections still open after an
\* operation that had opened one ends, whether it returned or threw
ReleaseDropThrown(n, threw) == IF threw THEN n ELSE n - 1

Release(n, threw) == n - 1

\* the part of withVpsBrowser up to the call of run, for the endpoint's
\* answer r: the error it throws ("none": run is called), the page handed to
\* run, the pages of the context, and the connections open afterwards
VpsOpen(r, ps, n) ==
  IF r = "refused"
  THEN [error |-> "connectOverCDP failed", page |-> 0, pages |-> ps, conns |-> n]
  ELSE IF r = "nocontext"
  THEN [error |-> "No browser context found on VPS CDP endpoint", page |-> 0,
        pages |-> ps, conns |-> Release(n + 1, TRUE)]
  ELSE IF selectPrimaryPage(ps) # NoPage
  THEN [error |-> "none", page |-> selectPrimaryPage(ps).id, pages |-> ps, conns |-> n + 1]
  ELSE IF r = "newpagefails"
  THEN [error |-> "newPage failed", page |-> 0, pages |-> ps,
        conns |-> Release(n + 1, TRUE)]
  ELSE [error |-> "none", page |-> NewPage(ps).id, pages |-> Append(ps, NewPage(ps)),
        conns |-> n + 1]

-----------------------------------------------------------------------------
(* Normalization *)

\* "catch (error) { console.warn(...) }" of both normalizations (lines
\* 287-289, 367-369): where POST stands after a normalization that threw m,
\* and the response it has
NormRethrow(m) == [pc |-> "done", response |-> CatchResponse(m)]

NormCatch(m) == [pc |-> "generate", response |-> NoResponse]

\* normalizeToSinglePageVps, first half: withVpsBrowser connects and selects
\* the page; an error is caught and logged (lines 367-369)
NormVpsConnect ==
  /\ pc = "normalize"
  /\ provider = "vps"
  /\ \E r \in ConnectResults :
       LET o == VpsOpen(r, pages, openConns) IN
       /\ pages' = o.pages
       /\ openConns' = o.conns
       /\ primary' = o.page
       /\ IF o.error = "none"
          THEN /\ pc' = "normalizing"
               /\ response' = response
          ELSE /\ pc' = NormCatch(o.error).pc
               /\ response' = NormCatch(o.error).response
       /\ normReport' = [NoReport EXCEPT !.before = pages]
  /\ UNCHANGED <<provider, stepCount, calls, hist>>
  /\ normRuns' = normRuns + 1
  /\ UNCHANGED <<traceVars, req, memSaves, mem>>

\* normalizeToSinglePageVps, second half: the callback closes every other
\* page (a rejected close is swallowed), brings the page to front (a
\* rejection is swallowed), and withVpsBrowser closes the connection
NormVpsRun ==
  /\ pc = "normalizing"
  /\ \E failed \in SUBSET (PageIds(pages) \ {primary}), focusOk \in BOOLEAN :
       /\ pages' = CloseOthers(pages, primary, failed)
       /\ normReport' = [ran |-> TRUE, before |-> normReport.before,
                         selected |-> primary, closeFailed |-> failed,
                         focus |-> IF focusOk THEN "ok" ELSE "failed"]
  /\ openConns' = Release(openConns, FALSE)
  /\ pc' = "generate"
  /\ UNCHANGED <<provider, primary, stepCount, calls, hist, response>>
  /\ UNCHANGED <<traceVars, req, normRuns, memSaves, mem>>

\* normalizeToSinglePageKernel: one playwright.execute RPC runs the script in
\* the sandbox; an RPC error is caught and logged (lines 287-289)
NormKernel ==
  /\ pc = "normalize"
  /\ provider = "kernel"
  /\ \E rpcOk \in BOOLEAN :
       IF ~rpcOk
       THEN /\ UNCHANGED <<pages, primary>>
            /\ normReport' = [NoReport EXCEPT !.before = pages]
            /\ pc' = NormCatch("rpc failed").pc
            /\ response' = NormCatch("rpc failed").response
       ELSE IF Len(pages) = 0
       THEN /\ UNCHANGED <<pages, primary, response>>
            /\ normReport' = [NoReport EXCEPT !.ran = TRUE]
            /\ pc' = "generate"
       ELSE \E failed \in SUBSET (PageIds(pages) \ {selectPrimaryPage(pages).id}),
               focusOk \in BOOLEAN :
              /\ pages' = CloseOthers(pages, selectPrimaryPage(pages).id, failed)
              /\ primary' = selectPrimaryPage(pages).id
              /\ normReport' = [ran |-> TRUE, before |-> pages,
                                selected |-> selectPrimaryPage(pages).id,
                                closeFailed |-> failed,
                                focus |-> IF focusOk THEN "ok" ELSE "failed"]
              /\ pc' = "generate"
              /\ response' = response
  /\ UNCHANGED <<provider, openConns, stepCount, calls, hist>>
  /\ normRuns' = normRuns + 1
  /\ UNCHANGED <<traceVars, req, memSaves, mem>>

-----------------------------------------------------------------------------
(* The agent loop: agent.generate (route.ts:626-667) *)

\* a tool call of a step: its input, how far its execute has come, the page
\* it was handed, its outcome, and how many connection attempts and how many
\* dispatches of its operation to the backend its execute has made
Call(input) ==
  [input |-> input, stage |-> "queued", target |-> 0, outcome |-> Pending,
   connects |-> 0, dispatches |-> 0]

\* execute asked the endpoint for a connection
Connected(c) == [c EXCEPT !.connects = @ + 1]

\* execute sent the operation to the backend (page operation, snippet, RPC)
Dispatched(c) == [c EXCEPT !.dispatches = @ + 1]

\* an execute that starts over when its attempt failed
FinishOrRetry(c, o) ==
  IF o.kind = "threw" \/ o.val = "success:false,error"
  THEN [c EXCEPT !.stage = "queued"]
  ELSE [c EXCEPT !.stage = "done", !.outcome = o]

\* execute returns or throws: the call has its outcome
Finish(c, o) == [c EXCEPT !.stage = "done", !.outcome = o]

\* what the model may ask for in its next step, after n steps
Emissions(n) ==
  IF n < DetailSteps
  THEN {<<>>} \cup {<<a>> : a \in Inputs}
       \cup {s \in SeqsUpTo(ConcInputs, MaxCalls) : Len(s) >= 2}
  ELSE {<<>>, <<Filler>>}

\* stopWhen: stepCountIs(20) -- true when steps.length equals the count
stepCountIsOneMore(count, n) == n = count + 1

stepCountIs(count, n) == n = count

\* the model call of a step rejects (endpoint down, malformed answer):
\* agent.generate rejects and POST's catch answers
ModelFails ==
  /\ pc = "generate"
  /\ response' = CatchResponse("model call failed")
  /\ pc' = "done"
  /\ memSaves' = saveSessionMemoryCalls("catch", memSaves)
  /\ UNCHANGED <<provider, pages, primary, normReport, openConns, stepCount, calls, hist>>
  /\ UNCHANGED <<traceVars, req, normRuns, mem>>

\* one model call: a new step with the tool calls the model emits
ModelTurn ==
  /\ pc = "generate"
  /\ \E e \in Emissions(stepCount) :
       /\ calls' = [i \in 1..Len(e) |-> Call(e[i])]
       /\ pc' = IF Len(e) = 0 THEN "respond" ELSE "tools"
       /\ hist' = [hist EXCEPT !.raw = @ \/ \E i \in 1..Len(e) : e[i] = RawInput]
  /\ stepCount' = stepCount + 1
  /\ normReport' = NoReport
  /\ UNCHANGED <<provider, pages, primary, openConns, response>>
  /\ UNCHANGED <<traceVars, req, normRuns, memSaves, mem>>

\* every call of the step has its outcome: the loop stops at the step
\* ceiling and calls the model again otherwise
StepResolved ==
  /\ pc = "tools"
  /\ \A i \in 1..Len(calls) : calls[i].stage = "done"
  /\ hist' = [hist EXCEPT
       !.failed = @ \/ \E i \in 1..Len(calls) : IsFailure(calls[i].outcome),
       !.connector = @ \/ \E i \in 1..Len(calls) : calls[i].outcome.error \in ConnectorMessages]
  /\ pc' = IF stepCountIs(StepLimit, stepCount) THEN "respond" ELSE "generate"
  /\ calls' = <<>>
  /\ UNCHANGED <<provider, pages, primary, normReport, openConns, stepCount, response>>
  /\ UNCHANGED <<traceVars, req, normRuns, memSaves, mem>>

\* POST, lines 670-738: agent.generate has resolved; the trace is extracted
\* and saveSessionMemory is awaited
SaveMemory ==
  /\ pc = "respond"
  /\ memSaves' = saveSessionMemoryCalls("success", memSaves)
  /\ pc' = "reply"
  /\ UNCHANGED <<provider, pages, primary, normReport, openConns, stepCount, calls, hist,
                 response>>
  /\ UNCHANGED <<traceVars, req, normRuns, mem>>

\* POST, lines 740-752: the response of a run that ended
Respond ==
  /\ pc = "reply"
  /\ response' = RunResponse(stepCount, hist)
  /\ pc' = "done"
  /\ UNCHANGED <<provider, pages, primary, normReport, openConns, stepCount, calls, hist>>
  /\ UNCHANGED <<traceVars, req, normRuns, memSaves, mem>>

-----------------------------------------------------------------------------
(* Tools of the direct backend *)

\* createVpsPlaywrightExecuteTool's catch: an error of withVpsBrowser or of
\* the snippet becomes the returned { success: false, error }
VpsExecuteRethrow(m) == Threw(m)

\* the catch without the fallback message
VpsExecuteCatchMessageOnly(m) == ReturnedFailure(m)

\* "error: error?.message || 'Failed to execute Playwright code on VPS'"
VpsExecuteCatch(m) ==
  ReturnedFailure(IF m = "" THEN "Failed to execute Playwright code on VPS" ELSE m)

\* what execute makes of an error thrown by withVpsBrowser before run is called
VpsOpenFailure(input, m) ==
  IF input.tool = "playwright_execute" THEN VpsExecuteCatch(m) ELSE Threw(m)

VpsResultShape(input) ==
  IF input.action = "screenshot"
  THEN "success,bytes,screenshotPreviewBase64,url,title"
  ELSE "success,url,title"

\* the callback of createVpsComputerUseTool on page target; opOk: whether the
\* page operation (goto, mouse, keyboard, wait, screenshot, title) resolves
VpsComputerUse(input, target, ps, opOk) ==
  IF MissingRequired(input)
  THEN [outcome |-> Threw(ValidationMessage(input)), pages |-> ps]
  ELSE IF ~opOk \/ target \notin PageIds(ps)
  THEN [outcome |-> Threw("page operation failed"), pages |-> ps]
  ELSE [outcome |-> Returned(VpsResultShape(input)),
        pages |-> IF input.action = "navigate" THEN Goto(ps, target, input.url) ELSE ps]

\* execute of either direct tool, up to the call of run
VpsConnect(i) ==
  /\ pc = "tools"
  /\ provider = "vps"
  /\ calls[i].stage = "queued"
  /\ \E r \in ConnectResults :
       LET o == VpsOpen(r, pages, openConns) IN
       /\ pages' = o.pages
       /\ openConns' = o.conns
       /\ calls' = [calls EXCEPT ![i] =
            IF o.error = "none"
            THEN [Connected(@) EXCEPT !.stage = "connected", !.target = o.page]
            ELSE Finish(Connected(@), VpsOpenFailure(@.input, o.error))]
  /\ UNCHANGED <<pc, provider, primary, normReport, stepCount, hist, response>>
  /\ UNCHANGED <<traceVars, req, normRuns, memSaves, mem>>

\* lengths of the base64 text of a screenshot: empty, below, at and above
\* the length the preview keeps
ImageLengths == {0, PreviewLimit - 1, PreviewLimit, PreviewLimit + 1, 4 * PreviewLimit}

\* the length of text.slice(0, end) for a text of length len
Slice(len, end) == IF len < end THEN len ELSE end

\* the screenshot result of the direct backend for an image whose base64
\* text has length len: screenshotPreviewBase64 is its first 120 characters
WithPreview(o, input, len) ==
  IF input.action = "screenshot" /\ o.kind = "returned"
  THEN [o EXCEPT !.preview = Slice(len, PreviewLimit)]
  ELSE o

\* computer_use on the direct backend: the callback, then browser.close()
VpsRunComputerUse(i) ==
  /\ pc = "tools"
  /\ calls[i].stage = "connected"
  /\ calls[i].input.tool = "computer_use"
  /\ \E opOk \in BOOLEAN, len \in ImageLengths :
       LET r == VpsComputerUse(calls[i].input, calls[i].target, pages, opOk) IN
       /\ pages' = r.pages
       /\ calls' = [calls EXCEPT ![i] =
            Finish(IF MissingRequired(@.input) THEN @ ELSE Dispatched(@),
                   WithPreview(r.outcome, @.input, len))]
       /\ openConns' = Release(openConns, r.outcome.kind = "threw")
  /\ UNCHANGED <<pc, provider, primary, normReport, stepCount, hist, response>>
  /\ UNCHANGED <<traceVars, req, normRuns, memSaves, mem>>

\* what a snippet given to playwright_execute may do: return a value, throw
\* an error with a message, throw one without (throw new Error()), open a page
RawEffects == {"value", "throws", "throwsBlank", "newPage"}

\* playwright_execute on the direct backend: the snippet, then browser.close()
VpsRunRaw(i) ==
  /\ pc = "tools"
  /\ calls[i].stage = "connected"
  /\ calls[i].input.tool = "playwright_execute"
  /\ \E effect \in RawEffects :
       /\ effect = "newPage" => Len(pages) < MaxPages
       /\ pages' = IF effect = "newPage" THEN Append(pages, NewPage(pages)) ELSE pages
       /\ calls' = [calls EXCEPT ![i] =
            Finish(Dispatched(@),
                   CASE effect = "throws" -> VpsExecuteCatch("snippet failed")
                     [] effect = "throwsBlank" -> VpsExecuteCatch("")
                     [] OTHER -> Returned("success:true,result"))]
       /\ openConns' = Release(openConns, effect \in {"throws", "throwsBlank"})
  /\ UNCHANGED <<pc, provider, primary, normReport, stepCount, hist, response>>
  /\ UNCHANGED <<traceVars, req, normRuns, memSaves, mem>>

-----------------------------------------------------------------------------
(* Tools of the managed backend *)

KernelResultShape(input) ==
  CASE input.action \in {"navigate", "wait"} -> "rpc response"
    [] input.action = "screenshot" -> "success,bytes,contentType"
    [] OTHER -> "success"

\* execute of createKernelComputerUseTool up to its first await: the guard
\* throws, or the RPC is sent.  playwright_execute is the SDK's own tool
\* (playwrightExecuteTool): it sends its RPC.  The executes of a step are
\* entered in emission order
KernelStart(i) ==
  /\ pc = "tools"
  /\ provider = "kernel"
  /\ calls[i].stage = "queued"
  /\ \A j \in 1..(i - 1) : calls[j].stage # "queued"
  /\ calls' = [calls EXCEPT ![i] =
       IF @.input.tool = "computer_use" /\ MissingRequired(@.input)
       THEN Finish(@, Threw(ValidationMessage(@.input)))
       ELSE [Dispatched(@) EXCEPT !.stage = "inflight"]]
  /\ UNCHANGED <<pc, provider, pages, primary, normReport, openConns, stepCount, hist, response>>
  /\ UNCHANGED <<traceVars, req, normRuns, memSaves, mem>>

\* the RPC of a managed computer_use call answers or fails.  The page the
\* service binds to "page", and the screen its mouse and keyboard act on, are
\* the service's: the model keeps no record of them
KernelReturn(i) ==
  /\ pc = "tools"
  /\ calls[i].stage = "inflight"
  /\ calls[i].input.tool = "computer_use"
  /\ \E rpcOk \in BOOLEAN :
       calls' = [calls EXCEPT ![i] =
         Finish(@, IF rpcOk THEN Returned(KernelResultShape(@.input))
                            ELSE Threw("rpc failed"))]
  /\ UNCHANGED <<pc, provider, pages, primary, normReport, openConns, stepCount, hist, response>>
  /\ UNCHANGED <<traceVars, req, normRuns, memSaves, mem>>

\* the RPC of the managed playwright_execute answers with a result or with a
\* failure, or the tool throws
KernelRawReturn(i) ==
  /\ pc = "tools"
  /\ calls[i].stage = "inflight"
  /\ calls[i].input.tool = "playwright_execute"
  /\ \E o \in {Returned("success:true,result"), ReturnedFailure("snippet failed"),
               Threw("rpc failed")} :
       calls' = [calls EXCEPT ![i] = Finish(@, o)]
  /\ UNCHANGED <<pc, provider, pages, primary, normReport, openConns, stepCount, hist, response>>
  /\ UNCHANGED <<traceVars, req, normRuns, memSaves, mem>>

-----------------------------------------------------------------------------
(* Trace extraction: POST, lines 670-727.  The steps agent.generate returns  *)
(* hold content items; the fields the extraction reads are modelled, an      *)
(* undefined field as "absent".                                              *)

TextItem == [type |-> "text", text |-> "narration"]

\* code: "absent" (no code field), "" or a snippet
CallItem(id, tool, code) ==
  [type |-> "tool-call", toolCallId |-> id, toolName |-> tool, input |-> [code |-> code]]

\* the value a tool's execute returned, as item.result shows it
Payload(present, success, result, error) ==
  [present |-> present, success |-> success, result |-> result, error |-> error]

ResultItem(id, tool, payload) ==
  [type |-> "tool-result", toolCallId |-> id, toolName |-> tool, result |-> payload]

\* the item of a call whose execute threw, or whose input failed the schema
ErrorItem(id, tool) ==
  [type |-> "tool-error", toolCallId |-> id, toolName |-> tool, error |-> "message"]

\* a call the model can emit and what the SDK can record for it:
\* playwright_execute returning {success:true,result} or {success:false,error},
\* a tool-result whose result field is undefined, computer_use returning a
\* value without a success flag, and either tool ending in a tool-error
CallKinds ==
  {[tool |-> "playwright_execute", code |-> "snippet", outcome |-> o] :
      o \in {"success", "failure", "undefined", "tool-error"}}
  \cup {[tool |-> "playwright_execute", code |-> "", outcome |-> "tool-error"]}
  \cup {[tool |-> "computer_use", code |-> "absent", outcome |-> o] :
      o \in {"noflag", "tool-error"}}

OutcomeItem(id, k) ==
  CASE k.outcome = "success" ->
         ResultItem(id, k.tool, Payload(TRUE, "true", "value", "absent"))
    [] k.outcome = "failure" ->
         ResultItem(id, k.tool, Payload(TRUE, "false", "absent", "message"))
    [] k.outcome = "noflag" ->
         ResultItem(id, k.tool, Payload(TRUE, "absent", "absent", "absent"))
    [] k.outcome = "undefined" ->
         ResultItem(id, k.tool, Payload(FALSE, "absent", "absent", "absent"))
    [] OTHER -> ErrorItem(id, k.tool)

\* the content of one step: the model's text, its tool calls in emission
\* order with ids first, first+1, ..., then the outcome of each call
StepContent(hasText, ks, first) ==
  (IF hasText THEN <<TextItem>> ELSE <<>>)
  \o [i \in 1..Len(ks) |-> CallItem(first + i - 1, ks[i].tool, ks[i].code)]
  \o [i \in 1..Len(ks) |-> OutcomeItem(first + i - 1, ks[i])]

\* "item.input?.code || null"
CodeOf(item) == IF item.input.code \in {"absent", ""} THEN "null" ELSE item.input.code

\* "item.result?.success ?? true"
SuccessOf(item) ==
  IF ~item.result.present \/ item.result.success = "absent" THEN "true"
  ELSE item.result.success

\* the callback of content.map (lines 677-701)
ProcessItem(item) ==
  CASE item.type = "tool-call" ->
         [type |-> "tool-call", toolCallId |-> item.toolCallId,
          toolName |-> item.toolName, code |-> CodeOf(item)]
    [] item.type = "tool-result" ->
         [type |-> "tool-result", toolCallId |-> item.toolCallId,
          toolName |-> item.toolName,
          result |-> IF item.result.present THEN item.result.result ELSE "absent",
          success |-> SuccessOf(item),
          error |-> IF item.result.present THEN item.result.error ELSE "absent"]
    [] item.type = "text" -> [type |-> "text", text |-> item.text]
    [] OTHER -> item

\* "stepNumber: index + 1", index counting from 0
StepNumberFromZero(index) == index

StepNumber(index) == index + 1

\* an extraction that keeps a tool-result only when its step holds the
\* tool-call of its id
DetailedStepsMatchedOnly(ss) ==
  [i \in 1..Len(ss) |->
     [stepNumber |-> StepNumber(i - 1),
      finishReason |-> ss[i].finishReason,
      content |->
        LET all == [j \in 1..Len(ss[i].content) |-> ProcessItem(ss[i].content[j])]
            matched(item) ==
              item.type = "tool-result"
              => \E k \in 1..Len(all) :
                    all[k].type = "tool-call" /\ all[k].toolCallId = item.toolCallId
        IN SelectSeq(all, matched)]]

\* steps.map (lines 670-708)
DetailedSteps(ss) ==
  [i \in 1..Len(ss) |->
     [stepNumber |-> StepNumber(i - 1),
      finishReason |-> ss[i].finishReason,
      content |-> [j \in 1..Len(ss[i].content) |-> ProcessItem(ss[i].content[j])]]]

\* step.content.find(r => r.type === "tool-result" && r.toolCallId === id):
\* the index of the first such item, 0 when there is none
FindResult(content, id) ==
  LET hits == {j \in 1..Len(content) :
                 content[j].type = "tool-result" /\ content[j].toolCallId = id}
  IN IF hits = {} THEN 0 ELSE CHOOSE j \in hits : \A k \in hits : j <= k

\* the entry made for a tool-call item with code (lines 714-726)
CodeEntry(content, item) ==
  LET j == FindResult(content, item.toolCallId) IN
  [code |-> item.code,
   success |-> IF j = 0 THEN "true" ELSE content[j].success,
   result |-> IF j = 0 THEN "absent" ELSE content[j].result,
   error |-> IF j = 0 THEN "absent" ELSE content[j].error]

\* "item.type === 'tool-call' && item.code"
HasCode(item) == item.type = "tool-call" /\ item.code # "null"

RECURSIVE StepEntries(_, _)
StepEntries(content, j) ==
  IF j > Len(content) THEN <<>>
  ELSE (IF HasCode(content[j]) THEN <<CodeEntry(content, content[j])>> ELSE <<>>)
       \o StepEntries(content, j + 1)

\* detailedSteps.flatMap (lines 711-727)
RECURSIVE ExecutedCodes(_, _)
ExecutedCodes(ds, i) ==
  IF i > Len(ds) THEN <<>>
  ELSE StepEntries(ds[i].content, 1) \o ExecutedCodes(ds, i + 1)

\* tool calls in the steps so far
RECURSIVE CallCount(_)
CallCount(ss) ==
  IF ss = <<>> THEN 0
  ELSE Cardinality({j \in 1..Len(ss[Len(ss)].content) :
                      ss[Len(ss)].content[j].type = "tool-call"})
       + CallCount(SubSeq(ss, 1, Len(ss) - 1))

StepHasCalls(step) == \E j \in 1..Len(step.content) : step.content[j].type = "tool-call"

StepHasFailure(step) ==
  \E j \in 1..Len(step.content) :
     \/ step.content[j].type = "tool-error"
     \/ step.content[j].type = "tool-result" /\ step.content[j].result.success = "false"

\* the state when agent.generate starts, for the extraction alone
TraceInit ==
  /\ pc = "generating"
  /\ provider = "vps"
  /\ pages = <<>>
  /\ primary = 0
  /\ normReport = NoReport
  /\ openConns = 0
  /\ stepCount = 0
  /\ calls = <<>>
  /\ hist = NoHist
  /\ response = NoResponse
  /\ steps = <<>>
  /\ nextId = 1
  /\ detailedSteps = <<>>
  /\ executedCodes = <<>>
  /\ tracePc = "generate"
  /\ req = NoRequest
  /\ normRuns = 0
  /\ memSaves = 0
  /\ mem = NoMem

\* a tool-result whose tool-call is not among the items of its step (the
\* call was not made by this step's model turn); its id is no call's id
OrphanResult == ResultItem(0, "playwright_execute", Payload(TRUE, "true", "value", "absent"))

HasOrphan(ss) ==
  \E i \in 1..Len(ss) : \E j \in 1..Len(ss[i].content) : ss[i].content[j] = OrphanResult

\* agent.generate produces one more step; the run goes on while the last
\* step holds tool calls.  At most one step of a run holds an orphan result
GenStep ==
  /\ tracePc = "generate"
  /\ Len(steps) < MaxTraceSteps
  /\ IF steps = <<>> THEN TRUE ELSE StepHasCalls(steps[Len(steps)])
  /\ \E hasText \in BOOLEAN, orphan \in BOOLEAN,
        ks \in SeqsUpTo(CallKinds, MaxTraceCalls - CallCount(steps)) :
       /\ Len(steps) = MaxTraceSteps - 1 => ks = <<>>
       /\ orphan => ~HasOrphan(steps)
       /\ steps' = Append(steps,
            [finishReason |-> IF ks = <<>> THEN "stop" ELSE "tool-calls",
             content |-> StepContent(hasText, ks, nextId)
                         \o (IF orphan THEN <<OrphanResult>> ELSE <<>>)])
       /\ nextId' = nextId + Len(ks)
  /\ UNCHANGED <<detailedSteps, executedCodes, tracePc>>
  /\ UNCHANGED <<runVars, mem>>

\* POST after agent.generate returned: lines 670-752
Extract ==
  /\ tracePc = "generate"
  /\ steps # <<>>
  /\ ~StepHasCalls(steps[Len(steps)])
  /\ detailedSteps' = DetailedSteps(steps)
  /\ executedCodes' = ExecutedCodes(DetailedSteps(steps), 1)
  /\ response' = RunResponse(Len(steps),
                   [failed |-> \E i \in 1..Len(steps) : StepHasFailure(steps[i]),
                    connector |-> FALSE,
                    raw |-> Len(ExecutedCodes(DetailedSteps(steps), 1)) > 0])
  /\ tracePc' = "done"
  /\ pc' = "done"
  /\ UNCHANGED <<steps, nextId>>
  /\ UNCHANGED <<provider, pages, primary, normReport, openConns, stepCount, calls, hist>>
  /\ UNCHANGED <<req, normRuns, memSaves, mem>>

TraceNext ==
  \/ GenStep
  \/ Extract

TraceSpec == TraceInit /\ [][TraceNext]_vars

-----------------------------------------------------------------------------

\* Normalization alone, over the requests of one session: the state when a
\* request that passed the checks reaches normalization
NormInit ==
  /\ pc = "normalize"
  /\ provider \in {"kernel", "vps"}
  /\ pages \in PageLists(MaxNormPages)
  /\ primary = 0
  /\ normReport = NoReport
  /\ openConns = 0
  /\ stepCount = 0
  /\ calls = <<>>
  /\ hist = NoHist
  /\ response = NoResponse
  /\ steps = <<>>
  /\ nextId = 1
  /\ detailedSteps = <<>>
  /\ executedCodes = <<>>
  /\ tracePc = "off"
  /\ req = NoRequest
  /\ normRuns = 0
  /\ memSaves = 0
  /\ mem = NoMem

\* the request's run asks for no tool and ends, and the next request for the
\* same session and backend passes the checks and reaches normalization
NextRequest ==
  /\ pc = "generate"
  /\ stepCount = 0
  /\ normRuns < MaxNormRuns
  /\ pc' = "normalize"
  /\ primary' = 0
  /\ normReport' = NoReport
  /\ UNCHANGED <<provider, pages, openConns, stepCount, calls, hist, response, normRuns, req>>
  /\ UNCHANGED <<traceVars, memSaves, mem>>

NormNext ==
  \/ NormVpsConnect
  \/ NormVpsRun
  \/ NormKernel
  \/ NextRequest

NormSpec == NormInit /\ [][NormNext]_vars

Next ==
  \/ Arrive
  \/ Receive
  \/ NormVpsConnect
  \/ NormVpsRun
  \/ NormKernel
  \/ ModelFails
  \/ ModelTurn
  \/ StepResolved
  \/ SaveMemory
  \/ Respond
  \/ \E i \in 1..Len(calls) : VpsConnect(i)
  \/ \E i \in 1..Len(calls) : VpsRunComputerUse(i)
  \/ \E i \in 1..Len(calls) : VpsRunRaw(i)
  \/ \E i \in 1..Len(calls) : KernelStart(i)
  \/ \E i \in 1..Len(calls) : KernelReturn(i)
  \/ \E i \in 1..Len(calls) : KernelRawReturn(i)

Spec == Init /\ [][Next]_vars

\* every model call and every tool call ends (each has its own timeout), so
\* a handler that can take a step takes one
LiveSpec == Spec /\ WF_vars(Next)

-----------------------------------------------------------------------------
(* Session memory (supabase-memory.ts) and its use by POST *)

\* the store as a call finds it: SUPABASE_URL or the key is not set; fetch
\* rejects; the answer's status is not a success one; the answer's body is
\* not a list; the answer is the list of the session's rows
StoreStates == {"unconfigured", "fetchfails", "notok", "notalist", "ok"}

\* lengths of the response text of a stored row
ResponseLengths == {0, SummaryLimit, SummaryLimit + 1}

\* the response field of a row (string | null): null, or a text of a length
ResponseValues ==
  {[isNull |-> TRUE, len |-> 0]} \cup {[isNull |-> FALSE, len |-> n] : n \in ResponseLengths}

\* SessionMemoryItem: the task names the row
MemoryItems == [task : {"a", "b"}, response : ResponseValues]

\* the rows of a session, newest first (order=created_at.desc)
MemoryRows == SeqsUpTo(MemoryItems, MaxMemoryItems)

\* getSupabaseMemoryConfig() is not null
getSupabaseMemoryConfig(store) == store # "unconfigured"

\* the try block of loadRecentSessionMemory: one fetch, which rejects or
\* whose answer is turned into the rows returned
LoadTry(store, rows) ==
  [items |-> IF store = "ok" THEN rows ELSE <<>>,
   raised |-> store = "fetchfails",
   requests |-> 1]

\* a loader that lets the error of its request through
LoadRethrow(r) == r

\* the catch of loadRecentSessionMemory: console.warn, return []
LoadCatch(r) == [r EXCEPT !.items = <<>>, !.raised = FALSE]

loadRecentSessionMemory(store, rows) ==
  IF ~getSupabaseMemoryConfig(store)
  THEN [items |-> <<>>, raised |-> FALSE, requests |-> 0]
  ELSE IF LoadTry(store, rows).raised
       THEN LoadCatch(LoadTry(store, rows))
       ELSE LoadTry(store, rows)

\* the try block of saveSessionMemory: one fetch, which rejects or whose
\* answer is looked at for its status only
SaveTry(store) == [raised |-> store = "fetchfails", requests |-> 1]

\* the catch of saveSessionMemory: console.warn
SaveCatch(r) == [r EXCEPT !.raised = FALSE]

saveSessionMemory(store) ==
  IF ~getSupabaseMemoryConfig(store)
  THEN [raised |-> FALSE, requests |-> 0]
  ELSE IF SaveTry(store).raised THEN SaveCatch(SaveTry(store)) ELSE SaveTry(store)

\* blocks in the order of the input
SameOrder(s) == s

\* [...items].reverse()
Reverse(s) == [i \in 1..Len(s) |-> s[Len(s) + 1 - i]]

\* one block of the text, for the item at index (from 0) of the reversed
\* list: "Memory <index + 1>", the task, the first 300 characters of the
\* response or of "" when it is null
MemoryBlock(item, index) ==
  [number |-> index + 1,
   task |-> item.task,
   summary |-> Slice(IF item.response.isNull THEN 0 ELSE item.response.len, SummaryLimit)]

\* buildMemoryPromptContext: the text as the list of its blocks (<<>>: the
\* empty text; a block is never empty), and the input list after the call
buildMemoryPromptContext(items) ==
  IF Len(items) = 0
  THEN [text |-> <<>>, items |-> items]
  ELSE [text |-> [i \in 1..Len(items) |-> MemoryBlock(Reverse(items)[i], i - 1)],
        items |-> items]

\* the prompt that is the task alone
BareTask == [task |-> "task", framed |-> FALSE, memory |-> <<>>]

\* promptWithMemory: the task, and when memoryContext is not the empty text
\* the task followed by the framing lines around the text
promptWithMemory(text) ==
  IF text # <<>> THEN [task |-> "task", framed |-> TRUE, memory |-> text] ELSE BareTask

\* No memory step has run: the store as the load and as the save will find
\* it, the rows it holds, and whether the agent run of the request will end
\* or raise
MemInit ==
  /\ pc = "idle"
  /\ provider = "none"
  /\ pages = <<>>
  /\ primary = 0
  /\ normReport = NoReport
  /\ openConns = 0
  /\ stepCount = 0
  /\ calls = <<>>
  /\ hist = NoHist
  /\ response = NoResponse
  /\ steps = <<>>
  /\ nextId = 1
  /\ detailedSteps = <<>>
  /\ executedCodes = <<>>
  /\ tracePc = "off"
  /\ req = NoRequest
  /\ normRuns = 0
  /\ memSaves = 0
  /\ mem \in [pc : {"load"}, store : StoreStates, storeAtSave : StoreStates,
              rows : MemoryRows, runOk : BOOLEAN, items : {<<>>}, text : {<<>>},
              prompt : {BareTask}, loadRequests : {0}, saveRequests : {0},
              raised : {FALSE}, outcome : {"none"}]

\* POST, line 571: sessionMemory = await loadRecentSessionMemory(...); an
\* error it raised would reach POST's catch
MemLoad ==
  /\ mem.pc = "load"
  /\ LET r == loadRecentSessionMemory(mem.store, mem.rows)
     IN mem' = [mem EXCEPT !.items = r.items,
                           !.loadRequests = r.requests,
                           !.raised = r.raised,
                           !.outcome = IF r.raised THEN "failure" ELSE @,
                           !.pc = IF r.raised THEN "done" ELSE "build"]
  /\ UNCHANGED <<runVars, traceVars>>

\* POST, lines 572 and 656-663: memoryContext and promptWithMemory
MemBuild ==
  /\ mem.pc = "build"
  /\ LET b == buildMemoryPromptContext(mem.items)
     IN mem' = [mem EXCEPT !.text = b.text,
                           !.items = b.items,
                           !.prompt = promptWithMemory(b.text),
                           !.pc = "run"]
  /\ UNCHANGED <<runVars, traceVars>>

\* POST, lines 665-727: the agent run ends, or raises and POST's catch answers
MemRun ==
  /\ mem.pc = "run"
  /\ mem' = [mem EXCEPT !.outcome = IF mem.runOk THEN @ ELSE "failure",
                        !.pc = IF mem.runOk THEN "save" ELSE "done"]
  /\ UNCHANGED <<runVars, traceVars>>

\* POST, lines 729-738: await saveSessionMemory(...)
MemSave ==
  /\ mem.pc = "save"
  /\ LET r == saveSessionMemory(mem.storeAtSave)
     IN mem' = [mem EXCEPT !.saveRequests = r.requests,
                           !.raised = r.raised,
                           !.outcome = IF r.raised THEN "failure" ELSE @,
                           !.pc = IF r.raised THEN "done" ELSE "reply"]
  /\ UNCHANGED <<runVars, traceVars>>

\* POST, lines 740-752: the success response
MemRespond ==
  /\ mem.pc = "reply"
  /\ mem' = [mem EXCEPT !.outcome = "success", !.pc = "done"]
  /\ UNCHANGED <<runVars, traceVars>>

MemNext ==
  \/ MemLoad
  \/ MemBuild
  \/ MemRun
  \/ MemSave
  \/ MemRespond

MemorySpec == MemInit /\ [][MemNext]_vars

-----------------------------------------------------------------------------
(* Properties *)

InFlight(c) == c.stage \in {"connected", "inflight"}

\* C1: a computer_use call that misses a required parameter ends in a failure
\* outcome, and on neither backend is any transport used for it: no managed
\* RPC is in flight for it and no CDP connection is open for it.
C1_ValidationBeforeTransport ==
  \A i \in 1..Len(calls) :
     calls[i].input.tool = "computer_use" /\ MissingRequired(calls[i].input)
     => /\ ~InFlight(calls[i])
        /\ calls[i].stage = "done" => IsFailure(calls[i].outcome)

\* C2: every connection withVpsBrowser opened is closed when its operation
\* ends, however it ends: the open connections are exactly those of the
\* operations still running, one each, and none is open between two tool
\* calls, before the run or after it.
C2_ConnectionsScoped ==
  /\ openConns = Cardinality({i \in 1..Len(calls) : calls[i].stage = "connected"})
                 + (IF pc = "normalizing" THEN 1 ELSE 0)
  /\ pc \in {"idle", "normalize", "generate", "respond", "reply", "done"} => openConns = 0

\* a direct-backend run stands between two steps, a tool call of it has
\* failed, and no connection is open
C2_Witness ==
  /\ provider = "vps"
  /\ pc = "generate"
  /\ hist.failed /\ hist.connector
  /\ stepCount >= 1
  /\ openConns = 0

\* the page normalization is to keep: the first page that is neither an
\* extension page nor blank, the first page when there is none
ExpectedPrimary(before) ==
  LET content == {i \in 1..Len(before) : before[i].url \notin {"ext", "blank"}}
  IN IF content = {} THEN before[1].id
     ELSE before[CHOOSE i \in content : \A j \in content : i <= j].id

\* C3 as stated: after normalization of a session with N >= 1 pages exactly
\* one page is open, the expected primary page.
C3_ExactlyOnePage ==
  Len(normReport.before) >= 1
  => /\ Len(pages) = 1
     /\ pages[1].id = ExpectedPrimary(normReport.before)

\* C3 as amended: a normalization that ran on N >= 1 pages keeps the expected
\* primary page and exactly those other pages whose close failed, in their
\* order and with their URLs, so exactly one page when no close failed; a
\* normalization that failed as a whole leaves the pages as they were.
C3_NormalizationResult ==
  Len(normReport.before) >= 1
  => IF normReport.ran
     THEN /\ normReport.selected = ExpectedPrimary(normReport.before)
          /\ pages = SelectSeq(normReport.before,
                       LAMBDA p : p.id = ExpectedPrimary(normReport.before)
                                  \/ p.id \in normReport.closeFailed)
          /\ normReport.closeFailed = {} => Len(pages) = 1
     ELSE pages = normReport.before

\* normalization ran on two pages, the first of them blank, closed it and
\* kept the second
C3_Witness ==
  /\ normReport.ran
  /\ Len(normReport.before) = 2
  /\ normReport.before[1].url = "blank"
  /\ Len(pages) = 1
  /\ pages[1].id = 2

\* C4: a failing tool call does not abort the run. The failure is that call's
\* outcome (for type_text without text, the guard's error), the only error
\* response of a started run is the one for a failed model call, and a run
\* whose steps hold a failed call ends with the success response.
C4_ToolFailureAbsorbed ==
  /\ \A i \in 1..Len(calls) :
        /\ calls[i].stage = "done" /\ IsFailure(calls[i].outcome) => pc = "tools"
        /\ calls[i].stage = "done" /\ calls[i].input.action = "type_text"
             /\ calls[i].input.text = "empty" /\ provider = "kernel"
           => calls[i].outcome = Threw("type_text action requires 'text'")
  /\ response.status = 500 => response.error = "model call failed"
  /\ pc = "done" /\ hist.failed /\ response.status # 500
     => response.success = "true" /\ response.status = 200 /\ response.toolFailures

\* a run with a failed tool call went on to a further step and ended with
\* the success response
C4_Witness ==
  /\ pc = "done"
  /\ response.success = "true"
  /\ response.toolFailures
  /\ response.stepCount >= 2

StepCeilingHolds ==
  /\ stepCount <= StepLimit
  /\ pc = "generate" => stepCount < StepLimit
  /\ pc = "done" /\ stepCount = StepLimit
     => response.success = "true" /\ response.stepCount = StepLimit

\* C6: the agent loop always terminates: whatever the model does, the loop
\* makes at most 20 steps and the request is answered; a run stopped by the
\* ceiling ends with the success response.  (Under LiveSpec.)
C6_LoopTerminates == [](StepCeilingHolds) /\ <>(pc = "done")

\* a run whose model asked for a tool in each of 20 steps has ended with the
\* success response
C6_Witness ==
  /\ pc = "done"
  /\ stepCount = StepLimit
  /\ response.success = "true"

\* C7: no two tool executions of a run overlap: at most one call is in
\* execution at a time, a call starts only when the calls emitted before it
\* are done, and at most one CDP connection is open.
C7_NoOverlap ==
  /\ Cardinality({i \in 1..Len(calls) : InFlight(calls[i])}) <= 1
  /\ \A i, j \in 1..Len(calls) :
        i < j /\ calls[j].stage # "queued" => calls[i].stage = "done"
  /\ openConns <= 1

\* C8: in a direct-backend run without a raw-code call, every computer_use
\* call that interacts with a page has the page normalization selected.
C8_SameTargetPage ==
  provider = "vps" /\ primary # 0 /\ ~hist.raw
  => \A i \in 1..Len(calls) :
        /\ calls[i].stage = "connected"
        /\ calls[i].input.tool = "computer_use"
        /\ ~MissingRequired(calls[i].input)
        => calls[i].target = primary

ToolResultsFor(ds, id) ==
  {<<i, j>> \in (1..Len(ds)) \X (1..MaxTraceCalls * 2 + 1) :
     /\ j <= Len(ds[i].content)
     /\ ds[i].content[j].type = "tool-result"
     /\ ds[i].content[j].toolCallId = id}

\* the entries the claim allows: one for each playwright_execute tool-call
\* item with code that has a tool-result item of its id in its step, with
\* that result's success, result and error
RECURSIVE PairEntriesOfStep(_, _)
PairEntriesOfStep(content, j) ==
  IF j > Len(content) THEN <<>>
  ELSE LET item == content[j]
           rs == {k \in 1..Len(content) :
                    content[k].type = "tool-result" /\ content[k].toolCallId = item.toolCallId}
       IN (IF item.type = "tool-call" /\ item.code # "null" /\ rs # {}
           THEN LET r == content[CHOOSE k \in rs : \A m \in rs : k <= m]
                IN <<[code |-> item.code, success |-> r.success,
                      result |-> r.result, error |-> r.error]>>
           ELSE <<>>)
          \o PairEntriesOfStep(content, j + 1)

RECURSIVE PairEntries(_, _)
PairEntries(ds, i) ==
  IF i > Len(ds) THEN <<>>
  ELSE PairEntriesOfStep(ds[i].content, 1) \o PairEntries(ds, i + 1)

\* C9: the entries of executedCodes are, in order, the raw-code call/result
\* pairs of detailedSteps: one entry for each pair, carrying the result's
\* success, result and error, and no entry for a call without a tool-result.
C9_EntriesArePairs ==
  tracePc = "done" => executedCodes = PairEntries(detailedSteps, 1)

\* C10: in a successful run the response's stepCount is the number of steps
\* produced and the length of detailedSteps, the steps are numbered 1, 2, ...
\* in order, and no tool-call id of detailedSteps has two tool-result items.
C10_StepCountAndIds ==
  tracePc = "done"
  => /\ response.success = "true"
     /\ response.stepCount = Len(steps)
     /\ Len(detailedSteps) = Len(steps)
     /\ \A i \in 1..Len(detailedSteps) :
           /\ detailedSteps[i].stepNumber = i
           /\ \A j \in 1..Len(detailedSteps[i].content) :
                 detailedSteps[i].content[j].type = "tool-call"
                 => Cardinality(ToolResultsFor(detailedSteps,
                                  detailedSteps[i].content[j].toolCallId)) <= 1

\* the trace of a run of three steps was extracted; it holds a call with its
\* result and a call without one
C10_Witness ==
  /\ tracePc = "done"
  /\ Len(detailedSteps) = 3
  /\ \E i \in 1..Len(detailedSteps) : \E j \in 1..Len(detailedSteps[i].content) :
        /\ detailedSteps[i].content[j].type = "tool-call"
        /\ Cardinality(ToolResultsFor(detailedSteps,
                         detailedSteps[i].content[j].toolCallId)) = 1
  /\ \E i \in 1..Len(detailedSteps) : \E j \in 1..Len(detailedSteps[i].content) :
        /\ detailedSteps[i].content[j].type = "tool-call"
        /\ ToolResultsFor(detailedSteps, detailedSteps[i].content[j].toolCallId) = {}

\* a request was rejected by the checks of POST: it is answered and kept
Rejected == pc = "done" /\ req # NoRequest

\* C11: a request with a task that resolves to the direct backend, with no
\* cdpWsUrl of its own and no endpoint configured, is answered with status
\* 400 and a body of success:false and the error naming the missing endpoint;
\* it ran no normalization, opened no connection and made no model call.
C11_MissingEndpointRejected ==
  /\ Rejected
  /\ Truthy(req.task)
  /\ provider = "vps"
  /\ ~req.cdpWsUrl /\ ~req.envCdpWsUrl
  => /\ response.success = "false"
     /\ response.status = 400
     /\ response.error = "VPS mode requires cdpWsUrl"
     /\ normRuns = 0 /\ openConns = 0 /\ stepCount = 0

\* C12: every failure response has the body {success:false, error} and the
\* status of its class: 400 for a missing task or sessionId, 503 for a
\* missing credential or endpoint of the selected backend, 500 for a failure
\* of the execution; a backend-unavailable failure precedes any model call.
C12_FailureResponseShape ==
  pc = "done" /\ response.status # 200
  => /\ response.success = "false"
     /\ response.status =
          IF ~Rejected THEN 500
          ELSE IF ~Truthy(req.task) THEN 400
          ELSE IF provider = "vps" \/ ~req.apiKey THEN 503
          ELSE 400
     /\ Rejected => stepCount = 0

\* C13: a request whose task is absent, empty or whitespace only is answered
\* with status 400 by the checks of POST: no normalization, no tool and no
\* model call follows, and no run starts.
C13_BlankTaskRejected ==
  [][pc = "received" /\ req.task \in {"absent", "empty", "whitespace"}
     => /\ pc' = "done"
        /\ response'.status = 400
        /\ normRuns' = 0 /\ stepCount' = 0]_vars

\* C14: the provider resolved for a request is the request's provider when
\* one is given, else the environment's default, else the managed backend;
\* the name is compared without regard to case, and every name that is not
\* the direct backend's gives the managed backend.
C14_ProviderResolution ==
  [][pc = "received"
     => LET name == IF req.provider \notin {"absent", ""} THEN req.provider
                    ELSE IF req.envProvider \notin {"absent", ""} THEN req.envProvider
                    ELSE "kernel"
        IN /\ provider' \in {"vps", "kernel"}
           /\ provider' = "vps" <=> name \in {"vps", "VPS"}]_vars

\* a request naming neither backend met an environment whose default is the
\* direct backend, and was resolved to the managed backend
C14_Witness ==
  /\ Rejected
  /\ req.provider = "other"
  /\ req.envProvider = "vps"
  /\ provider = "kernel"

\* C15: a failure of normalization is not raised to the caller.  Every step
\* of a normalization, failing or not, leaves the request unanswered and on
\* its way to the agent run, and a request that reached normalization ends
\* with the success response unless a model call fails.
C15_NormalizationFailureAbsorbed ==
  [][/\ pc \in {"normalize", "normalizing"}
        => pc' \in {"normalizing", "generate"} /\ response' = NoResponse
     /\ pc' = "done" /\ normRuns' > 0
        => response'.success = "true" \/ response'.error = "model call failed"]_vars

\* a normalization of a session with pages failed as a whole, and the
\* request stands before its first model call with the pages as they were
C15_Witness ==
  /\ pc = "generate"
  /\ stepCount = 0
  /\ normRuns = 1
  /\ ~normReport.ran
  /\ Len(normReport.before) >= 1
  /\ pages = normReport.before
  /\ response = NoResponse

\* C16: normalizing a session with no open page is a no-op on both backends:
\* no page is created and the session has no page afterwards.
C16_ZeroPagesNoOp ==
  /\ normRuns = 1
  /\ stepCount = 0
  /\ pc \in {"normalizing", "generate"}
  /\ normReport.before = <<>>
  => /\ pages = <<>>
     /\ primary = 0

\* C17 as stated: a normalization of a session with exactly one page leaves
\* that page and closes none, and the second of two normalizations in a row
\* changes nothing: the pages after it are the pages after the first.
C17_Idempotent ==
  normRuns >= 1 /\ pc = "generate"
  => /\ Len(normReport.before) = 1 => pages = normReport.before
     /\ normRuns = 2 => pages = normReport.before

\* C17 as amended: a normalization of a session with exactly one page,
\* whether the first or a later one, closes no page and leaves that page
\* open; and a first normalization that ran on N >= 1 pages with every
\* close succeeding leaves exactly one page, so that the next one changes
\* nothing.
C17_SinglePageNoOp ==
  normRuns >= 1 /\ pc = "generate"
  => /\ Len(normReport.before) = 1
        => /\ pages = normReport.before
           /\ normReport.closeFailed = {}
           /\ normReport.ran => normReport.selected = normReport.before[1].id
     /\ normReport.ran /\ normReport.closeFailed = {} /\ Len(normReport.before) >= 1
        => Len(pages) = 1

\* the second normalization in a row ran on the one page the first had left
\* and left it open
C17_Witness ==
  /\ normRuns = 2
  /\ pc = "generate"
  /\ normReport.ran
  /\ Len(normReport.before) = 1
  /\ pages = normReport.before

\* the result the action catalog gives for an action
CatalogShape(action) ==
  CASE action = "navigate" -> "url,title"
    [] action = "wait" -> "waitedMs"
    [] action = "screenshot" -> "success,bytes,contentType"
    [] OTHER -> "success"

\* C18: computer_use has the same surface on both backends: for every action
\* and every valid input, the result either implementation returns has the
\* shape of the catalog, the same on both.
C18_SameSurface ==
  \A i \in 1..Len(calls) :
     /\ calls[i].stage = "done"
     /\ calls[i].input.tool = "computer_use"
     /\ calls[i].outcome.kind = "returned"
     => /\ calls[i].outcome.val = CatalogShape(calls[i].input.action)
        /\ KernelResultShape(calls[i].input) = VpsResultShape(calls[i].input)

\* C19: playwright_execute of the direct backend never throws: whatever the
\* endpoint and the snippet do, it returns {success:true, result} or
\* {success:false, error} with a non-empty error, and the connection it
\* opened is closed by then: while the tools of a step run, only calls still
\* running hold connections.
C19_RawExecuteNeverRaises ==
  /\ \A i \in 1..Len(calls) :
        /\ provider = "vps"
        /\ calls[i].input.tool = "playwright_execute"
        /\ calls[i].stage = "done"
        => /\ calls[i].outcome.kind = "returned"
           /\ \/ calls[i].outcome.val = "success:true,result"
                 /\ calls[i].outcome.error = "none"
              \/ calls[i].outcome.val = "success:false,error"
                 /\ calls[i].outcome.error \notin {"", "none"}
  /\ provider = "vps" /\ pc = "tools"
     => openConns <= Cardinality({i \in 1..Len(calls) : calls[i].stage # "done"})

\* a snippet threw an error without a message, and the call returned a
\* failure with the fallback message, no connection left open
C19_Witness ==
  /\ provider = "vps"
  /\ openConns = 0
  /\ \E i \in 1..Len(calls) :
        /\ calls[i].input.tool = "playwright_execute"
        /\ calls[i].stage = "done"
        /\ calls[i].outcome = ReturnedFailure("Failed to execute Playwright code on VPS")

\* C20: nothing retries: the execute of a tool call makes at most one
\* connection attempt and dispatches its operation at most once, whether it
\* succeeds or fails (on the managed backend it connects to nothing), and a
\* request normalizes once, whether that succeeds or fails.
C20_NoRetry ==
  /\ \A i \in 1..Len(calls) :
        /\ calls[i].connects <= 1
        /\ calls[i].dispatches <= 1
        /\ provider = "kernel" => calls[i].connects = 0
        /\ calls[i].stage = "done" /\ calls[i].outcome.error \in ConnectorMessages
           => calls[i].connects = 1 /\ calls[i].dispatches = 0
  /\ normRuns <= 1

\* a call whose connection attempt failed and a call whose page operation
\* failed are both done, each after one attempt
C20_Witness ==
  /\ \E i \in 1..Len(calls) :
        /\ calls[i].stage = "done"
        /\ calls[i].outcome.error \in ConnectorMessages
        /\ calls[i].connects = 1 /\ calls[i].dispatches = 0
  /\ \E j \in 1..Len(calls) :
        /\ calls[j].stage = "done"
        /\ calls[j].outcome = Threw("page operation failed")
        /\ calls[j].connects = 1 /\ calls[j].dispatches = 1
  /\ normRuns = 1

\* C21: no screenshot outcome embeds the full image: the managed backend's
\* outcome holds the byte count and the content type and no image text, the
\* direct backend's holds the byte count, the content type and a preview of
\* at most 120 characters.
C21_ScreenshotBounded ==
  \A i \in 1..Len(calls) :
     /\ calls[i].stage = "done"
     /\ calls[i].input.tool = "computer_use"
     /\ calls[i].input.action = "screenshot"
     /\ calls[i].outcome.kind = "returned"
     => IF provider = "kernel"
        THEN /\ calls[i].outcome.val = "success,bytes,contentType"
             /\ calls[i].outcome.preview = 0
        ELSE /\ calls[i].outcome.val
                  \in {"success,bytes,contentType,screenshotPreviewBase64",
                       "success,bytes,contentType,screenshotPreviewBase64,url,title"}
             /\ calls[i].outcome.preview <= PreviewLimit

\* C22: trace extraction keeps every content item in its place: each
\* extracted step has as many items as the step it came from, item j made
\* from item j with its kind; a tool-call keeps its id and tool name, a
\* tool-result keeps its id whether or not a tool-call of its step has that
\* id, and has success true when the result carries no success flag, a text
\* keeps its text, and an item of another kind is passed through unchanged.
C22_ItemsPreserved ==
  tracePc = "done"
  => /\ Len(detailedSteps) = Len(steps)
     /\ \A i \in 1..Len(steps) :
          /\ Len(detailedSteps[i].content) = Len(steps[i].content)
          /\ \A j \in 1..Len(steps[i].content) :
               LET a == steps[i].content[j]
                   b == detailedSteps[i].content[j]
               IN /\ b.type = a.type
                  /\ a.type = "tool-call"
                     => b.toolCallId = a.toolCallId /\ b.toolName = a.toolName
                  /\ a.type = "tool-result"
                     => /\ b.toolCallId = a.toolCallId
                        /\ b.success =
                             IF a.result.present /\ a.result.success \in {"true", "false"}
                             THEN a.result.success ELSE "true"
                  /\ a.type = "text" => b.text = a.text
                  /\ a.type \notin {"tool-call", "tool-result", "text"} => b = a

\* the trace of a step was extracted that holds a text, a tool-result without
\* a success flag, a tool-error item and a tool-result whose id is no call's
C22_Witness ==
  /\ tracePc = "done"
  /\ \E i \in 1..Len(steps) :
        /\ \E j \in 1..Len(steps[i].content) : steps[i].content[j].type = "text"
        /\ \E j \in 1..Len(steps[i].content) : steps[i].content[j].type = "tool-error"
        /\ \E j \in 1..Len(steps[i].content) :
              /\ steps[i].content[j].type = "tool-result"
              /\ steps[i].content[j].result.success = "absent"
        /\ \E j \in 1..Len(steps[i].content) :
              /\ steps[i].content[j] = OrphanResult
              /\ detailedSteps[i].content[j].type = "tool-result"
              /\ detailedSteps[i].content[j].toolCallId = 0

\* C23: a failing close does not stop the pass.  Whatever closes fail, every
\* other page that is not the primary one is closed, the primary page stays
\* open, bringToFront is called on it, and the normalization completes
\* whether or not bringToFront fails.
C23_CloseFailuresTolerated ==
  normRuns >= 1 /\ pc = "generate" /\ normReport.ran /\ Len(normReport.before) >= 1
  => /\ normReport.selected \in PageIds(pages)
     /\ normReport.closeFailed \subseteq PageIds(pages) \ {normReport.selected}
     /\ \A i \in 1..Len(normReport.before) :
          /\ normReport.before[i].id # normReport.selected
          /\ normReport.before[i].id \notin normReport.closeFailed
          => normReport.before[i].id \notin PageIds(pages)
     /\ normReport.focus \in {"ok", "failed"}

\* of three pages the close of the first failed, a later page was closed all
\* the same, bringToFront failed, and the normalization completed
C23_Witness ==
  /\ pc = "generate"
  /\ normReport.ran
  /\ Len(normReport.before) = 3
  /\ normReport.closeFailed = {normReport.before[1].id}
  /\ Len(pages) = 2
  /\ normReport.focus = "failed"

\* C24: saveSessionMemory is called at most once for a request, only once the
\* run has ended without an exception, and before the success response is
\* returned; a request that is rejected or whose run raises makes no call.
C24_MemoryWriteOnce ==
  /\ memSaves <= 1
  /\ memSaves = 1 => pc \in {"reply", "done"}
  /\ pc = "done" /\ response.success = "true" => memSaves = 1
  /\ pc = "done" /\ response.success # "true" => memSaves = 0
  /\ pc \notin {"reply", "done"} => memSaves = 0 /\ response = NoResponse

\* the write has been made and the success response is still to be returned
C24_Witness ==
  /\ pc = "reply"
  /\ memSaves = 1
  /\ response = NoResponse
  /\ stepCount >= 1

\* C25: the memory store never fails a request.  Neither the load nor the
\* save raises, whatever the store does; the load returns the empty list
\* unless the store answered with the rows; an unconfigured store is sent no
\* request by either; and the request succeeds exactly when its agent run
\* ended, whatever the store did.
C25_MemoryNeverFailsRun ==
  /\ ~mem.raised
  /\ mem.pc # "load" /\ mem.store # "ok" => mem.items = <<>>
  /\ mem.store = "unconfigured" => mem.loadRequests = 0
  /\ mem.storeAtSave = "unconfigured" => mem.saveRequests = 0
  /\ mem.pc = "done" => (mem.outcome = "success" <=> mem.runOk)

\* a request whose load found the store unreachable and whose save found it
\* answering with an error status, and which succeeded, both requests sent
C25_Witness ==
  /\ mem.pc = "done"
  /\ mem.store = "fetchfails"
  /\ mem.storeAtSave = "notok"
  /\ mem.outcome = "success"
  /\ mem.loadRequests = 1
  /\ mem.saveRequests = 1

\* C26: the text built from the loaded items is empty for no items, and
\* otherwise holds one block per item, in the reverse of the input order,
\* numbered from 1 in the order of the blocks, each with a summary of the
\* first 300 characters of the item's response at most (none for a null
\* response); the list passed in is as it was; and the prompt is the bare
\* task exactly when the text is empty.
C26_PromptContext ==
  mem.pc \in {"run", "save", "reply", "done"}
  => /\ mem.items = (IF mem.store = "ok" THEN mem.rows ELSE <<>>)
     /\ Len(mem.text) = Len(mem.items)
     /\ Len(mem.items) = 0 => mem.text = <<>>
     /\ \A i \in 1..Len(mem.text) :
          LET item == mem.items[Len(mem.items) + 1 - i]
          IN /\ mem.text[i].number = i
             /\ mem.text[i].task = item.task
             /\ mem.text[i].summary <= SummaryLimit
             /\ mem.text[i].summary =
                  (IF item.response.isNull THEN 0
                   ELSE IF item.response.len > SummaryLimit THEN SummaryLimit
                   ELSE item.response.len)
     /\ (mem.prompt = BareTask) <=> (mem.text = <<>>)

\* two items, the newer with a null response and the older with a response
\* longer than the limit: the older one's block comes first, cut to the limit
C26_Witness ==
  /\ mem.pc = "run"
  /\ Len(mem.items) = 2
  /\ mem.items[1].task = "a" /\ mem.items[1].response.isNull
  /\ mem.items[2].task = "b" /\ mem.items[2].response.len > SummaryLimit
  /\ mem.text[1].task = "b" /\ mem.text[1].summary = SummaryLimit
  /\ mem.text[2].task = "a" /\ mem.text[2].summary = 0
  /\ mem.prompt # BareTask

====
